---- MODULE Spec2Model ----
(***************************************************************************)
(* Model of the micro-rdk ESP32 firmware: the main task of                *)
(* examples/esp32.rs (bring-up, runserver accept loop) and the cloud      *)
(* client task of src/esp32/robot_client.rs (TLS, HTTP/2 handshake,       *)
(* Authenticate, Config, stand-down wait, task exit), together with the   *)
(* FreeRTOS task notifications that connect the two.                      *)
(*                                                                         *)
(* Byte strings are sequences of numbers 0..255.                           *)
(***************************************************************************)
EXTENDS Integers, Sequences, FiniteSets, TLC

(* ----------------------------- bounds ---------------------------------- *)
\* number of inbound connections accept() hands out in one run
MaxConns == 2
\* number of streams a LAN client tries to open on one connection
MaxStreamAttempts == 2
\* longest access_token the cloud returns
MaxTokenLen == 2
\* largest DATA chunk the cloud connection delivers at once
MaxChunk == 6

(* ------------------------- byte-string helpers ------------------------- *)
Min(a, b) == IF a < b THEN a ELSE b

\* the 5-byte gRPC prefix that both requests put in front of the payload
PREFIX_LEN == 5

\* "Bearer " (format!("Bearer {}", ...))
BEARER == <<66, 101, 97, 114, 101, 114, 32>>
\* "robot-secret"
ROBOT_SECRET_TYPE == <<114, 111, 98, 111, 116, 45, 115, 101, 99, 114, 101, 116>>
\* "esp32"
ESP32_STR == <<101, 115, 112, 51, 50>>
\* "0.0.2"
VERSION_STR == <<48, 46, 48, 46, 50>>

\* BufMut::put_u8
put_u8(buf, b) == Append(buf, b % 256)

\* BufMut::put_u32: the four bytes of n, most significant first (n is a
\* length, a usize of 32 bits on this target, so try_into::<u32> is exact)
put_u32(buf, n) ==
    buf \o << (n \div 16777216) % 256, (n \div 65536) % 256,
              (n \div 256) % 256, n % 256 >>

\* BytesMut::split_off(at): [0, at) stays, [at, len) is returned
split_off_head(buf, at) == SubSeq(buf, 1, at)

\* variant: the returned part starts one byte early
split_off_tail_OffByOne(buf, at) == SubSeq(buf, at, Len(buf))

split_off_tail(buf, at) == SubSeq(buf, at + 1, Len(buf))

\* BytesMut::unsplit
unsplit(buf, other) == buf \o other

\* decimal digits of a number, as ASCII
RECURSIVE DecDigits(_)
DecDigits(n) == IF n < 10 THEN << 48 + n >>
                ELSE DecDigits(n \div 10) \o << 48 + (n % 10) >>

\* Ipv4Addr::to_string
Ipv4ToString(ip) ==
    DecDigits(ip[1]) \o <<46>> \o DecDigits(ip[2]) \o <<46>> \o
    DecDigits(ip[3]) \o <<46>> \o DecDigits(ip[4])

(* ---------------- protobuf (prost) encoding of the messages ------------ *)
\* a proto3 string field: omitted when empty, else key, length, bytes
EncString(field, s) ==
    IF s = <<>> THEN <<>> ELSE << field * 8 + 2, Len(s) >> \o s

\* a repeated string field: every element is written, empty or not
EncRepeatedString(field, s) == << field * 8 + 2, Len(s) >> \o s

\* an optional message field that is Some(m)
EncMessage(field, m) == << field * 8 + 2, Len(m) >> \o m

\* Credentials { type: "robot-secret", payload: robot_secret }
EncodeCredentials(secret) ==
    EncString(1, ROBOT_SECRET_TYPE) \o EncString(2, secret)

\* AuthenticateRequest { entity: robot_id, credentials: Some(cred) }
EncodeAuthenticateRequest(id, secret) ==
    EncString(1, id) \o EncMessage(2, EncodeCredentials(secret))

\* AgentInfo { os, host, ips: [ip.to_string()], version, git_revision: "" }
EncodeAgentInfo(ip) ==
    EncString(1, ESP32_STR) \o EncString(2, ESP32_STR) \o
    EncRepeatedString(3, Ipv4ToString(ip)) \o EncString(4, VERSION_STR) \o
    EncString(5, <<>>)

\* ConfigRequest { agent_info: Some(agent), id: robot_id }
EncodeConfigRequest(id, ip) ==
    EncString(1, id) \o EncMessage(2, EncodeAgentInfo(ip))

\* Message::encoded_len
encoded_len(payload) == Len(payload)

\* variant: the length prefix counts the 5 prefix bytes as well
FrameBody_LenCountsPrefix(payload) ==
    put_u32(put_u8(<<>>, 0), encoded_len(payload) + PREFIX_LEN) \o payload

\* the body block of request_jwt_token / read_config:
\*   buf.put_u8(0); buf.put_u32(encoded_len); msg = buf.split_off(5);
\*   req.encode(&mut msg); buf.unsplit(msg)
FrameBody(payload) ==
    LET buf1 == put_u32(put_u8(<<>>, 0), encoded_len(payload))
        head == split_off_head(buf1, PREFIX_LEN)
        msg  == split_off_tail(buf1, PREFIX_LEN) \o payload
    IN  unsplit(head, msg)

\* prost decoding of a message made of length-delimited fields: ok is FALSE
\* when a key or a length does not fit, else fields lists <<field, value>>
RECURSIVE ParseFields(_)
ParseFields(p) ==
    IF p = <<>> THEN [ok |-> TRUE, fields |-> <<>>]
    ELSE IF Len(p) < 2 \/ p[1] % 8 # 2 \/ p[1] \div 8 = 0 \/ p[2] > Len(p) - 2
         THEN [ok |-> FALSE, fields |-> <<>>]
         ELSE LET rest == ParseFields(SubSeq(p, 3 + p[2], Len(p)))
              IN  IF ~rest.ok THEN rest
                  ELSE [ok |-> TRUE,
                        fields |-> << << p[1] \div 8, SubSeq(p, 3, 2 + p[2]) >> >>
                                   \o rest.fields]

\* the value of a string field after decoding: the last occurrence wins,
\* the default is the empty string
RECURSIVE LastField(_, _, _)
LastField(fields, field, default) ==
    IF fields = <<>> THEN default
    ELSE LastField(Tail(fields), field,
                   IF Head(fields)[1] = field THEN Head(fields)[2] ELSE default)

\* AuthenticateResponse::decode(r): Err, or Ok with the access_token
DecodeAuthenticateResponse(p) ==
    LET f == ParseFields(p)
    IN  [ok |-> f.ok, access_token |-> LastField(f.fields, 1, <<>>)]

\* ConfigResponse::decode(r): Err, or Ok with a message that is only logged
DecodeConfigResponse(p) ==
    LET f == ParseFields(p)
    IN  [ok |-> f.ok, config |-> LastField(f.fields, 1, <<>>)]

(* ------------------- what the environment can produce ------------------ *)
RECURSIVE RepeatByte(_, _)
RepeatByte(b, n) == IF n = 0 THEN <<>> ELSE <<b>> \o RepeatByte(b, n - 1)

\* access tokens the cloud may hand out
Tokens == { RepeatByte(116, n) : n \in 0..MaxTokenLen }

\* payloads of a response: well-formed messages and a truncated one
ResponsePayloads ==
    { EncString(1, t) : t \in Tokens } \cup { <<10, 5, 116>> }

\* response bodies the cloud connection can deliver: bodies shorter than a
\* frame prefix (a trailers-only reply has no DATA at all), correct frames,
\* frames with the compression flag set, frames whose length prefix is off
ResponseBodies ==
    { <<>>, <<0>>, <<0, 0, 0, 0>> } \cup
    UNION { { FrameBody(p),
              put_u32(<<1>>, Len(p)) \o p,
              put_u32(<<0>>, Len(p) + 1) \o p } : p \in ResponsePayloads }

\* build-time ROBOT_ID / ROBOT_SECRET
RobotIds == { <<105>>, <<105, 100>> }
RobotSecrets == { <<115, 101, 99>> }
\* addresses DHCP can hand out (start_wifi waits until it is not 0.0.0.0)
AcquiredIps == { <<10, 0, 0, 2>> }

\* Option<T>
None == <<>>
Some(x) == <<x>>

(* ------------------------- the resource registry ----------------------- *)
\* ResourceName { namespace: "rdk", type: "component", subtype, name }
ResourceName(subtype, name) ==
    [ namespace |-> "rdk", type |-> "component",
      subtype |-> subtype, name |-> name ]

\* ResourceType::Motor(..) / Board(..) / Base(..) / Camera(..) around the
\* Arc of a driver
ResourceType(variant, driver) == [ variant |-> variant, driver |-> driver ]

\* HashMap::insert: an entry with the same key is replaced
insert(res, key, value) ==
    { e \in res : e.key # key } \cup { [ key |-> key, value |-> value ] }

\* the inserts of main: lines 125-171 without qemu (m1, m2, b, base), lines
\* 191-228 with qemu (m1, b, base), camera c when the feature is on
BuildRegistry(q, cam) ==
    LET r1 == insert({}, ResourceName("motor", "m1"),
                     ResourceType("Motor", "motor"))
        r2 == IF q THEN r1
              ELSE insert(r1, ResourceName("motor", "m2"),
                          ResourceType("Motor", "m2"))
        r3 == insert(r2, ResourceName("board", "b"),
                     ResourceType("Board", "board"))
        r4 == insert(r3, ResourceName("base", "base"),
                     ResourceType("Base", "base"))
    IN  IF cam THEN insert(r4, ResourceName("camera", "c"),
                           ResourceType("Camera", "camera"))
        ELSE r4

\* the drivers the base keeps a strong reference to:
\* Esp32WheelBase::new(motor.clone(), m2.clone()), line 123; FakeBase::new()
\* keeps none, line 184
BaseHolds(q) == IF q THEN {} ELSE { "motor", "m2" }

\* variant: main keeps a clone of the first motor
LocalHolds_KeepsMotor(q) == { "motor" }

\* the drivers main still holds a strong reference to once the map is built:
\* motor, m2, board, base and camera are moved into their entries
LocalHolds(q) == {}

\* who holds a strong reference (Arc) to each driver of the map
Owners(res, q) ==
    [ d \in { e.value.driver : e \in res } |->
        { [ kind |-> "entry", of |-> e.key.name ] :
              e \in { x \in res : x.value.driver = d } }
        \cup { [ kind |-> "driver", of |-> "base" ] :
                  x \in { y \in BaseHolds(q) : y = d } }
        \cup { [ kind |-> "local", of |-> "main" ] :
                  x \in { y \in LocalHolds(q) : y = d } } ]

\* what serving one RPC does to the robot behind the server's mutex: the
\* handler borrows the drivers and leaves the map as it was
HandlerEffect(robot) == robot

\* variant: the server is given a robot without resources
GrpcServerNew_Empty(robot) == {}

\* GrpcServer::new(Arc::new(Mutex::new(robot))), line 299: the robot is
\* moved into the server as it is
GrpcServerNew(robot) == robot

(* -------------------------------- state -------------------------------- *)
VARIABLES
    qemu,           \* build feature "qemu"
    camera,         \* build feature "camera"
    robot_id,       \* ROBOT_ID
    robot_secret,   \* ROBOT_SECRET
    main_handle,    \* RobotClientConfig.main_handle
    ip,             \* the ip main passes to RobotClientConfig::new
    mainPc,         \* position of the main task
    hnd,            \* client task handle held by main (Option)
    active,         \* connections whose serve future has not resolved
    accepted,       \* number of streams accept() has returned
    max_concurrent_streams, \* setting of the connection being served
    attempts,       \* streams the LAN client tried to open on it
    serveResult,    \* how the last serve future resolved
    inflight,       \* request handlers currently executing
    dispatched,     \* requests of the connection dispatched to a handler
    refused,        \* streams of the connection that were refused
    registry,       \* the ResourceMap inside the Esp32Robot main built
    owners,         \* driver -> holders of a strong reference to it
    srv,            \* the robot inside the GrpcServer of runserver
    netif_ip,       \* the address the network interface acquired
    mainErr,        \* the step whose error main returned
    milestones,     \* boot steps main has completed, in order
    clientPc,       \* position of the cloud client task
    curReq,         \* request the client is working on
    taskExists,     \* the client task has been created and not deleted
    jwt,            \* RobotClient.jwt
    request,        \* the Request<()> built for the current call
    body,           \* the framed body built for the current call
    sent,           \* what the client put on the wire, in order
    wire,           \* response DATA not yet delivered to the client
    response_buf,   \* send_request's response_buf
    released,       \* capacity released to the flow controller, this call
    trailers_result, \* what body.trailers() returned, this call
    h2_stored,      \* how often self.h2 has been replaced
    clientResult,   \* result of clientloop
    clientNotif,    \* pending notification of the client task
    mainNotif,      \* pending notification of the main task
    notifyMainCalls, \* values the client passed to notify(main_handle, _)
    log,            \* messages logged so far
    aborted         \* the firmware aborted (panic or fault)

bootVars == << registry, owners, srv, netif_ip, mainErr, milestones >>
mainVars == << mainPc, hnd, active, accepted, max_concurrent_streams,
               attempts, serveResult, inflight, dispatched, refused,
               bootVars >>
clientVars == << clientPc, curReq, jwt, request, body, sent, wire,
                 response_buf, released, trailers_result, h2_stored,
                 clientResult, notifyMainCalls >>
cfgVars == << qemu, camera, robot_id, robot_secret, main_handle >>
vars == << cfgVars, ip, mainVars, clientVars, taskExists, clientNotif,
           mainNotif, log, aborted >>

NoNotif == [pending |-> FALSE, value |-> 0]

\* xTaskGenericNotify(task, 0, value, eSetBits): the bits are or-ed into the
\* notification value (values here are 0 or 1) and the task is marked notified
SetBits(n, value) ==
    [pending |-> TRUE, value |-> IF n.value = 1 \/ value = 1 THEN 1 ELSE 0]

\* The state when main starts.  main_handle is None in RobotClientConfig::new;
\* set_main_handle is public and examples/esp32.rs never calls it, so both
\* configurations a caller of start() can pass are covered.
\* The camera block of the build without qemu (lines 69-73) uses `camera`
\* before it is bound and does not compile, so camera implies qemu.
Init ==
    /\ qemu \in BOOLEAN
    /\ camera \in BOOLEAN
    /\ camera => qemu
    /\ robot_id \in RobotIds
    /\ robot_secret \in RobotSecrets
    /\ main_handle \in { None, Some("main") }
    /\ ip = None
    /\ mainPc = "robot"
    /\ hnd = None
    /\ active = {}
    /\ accepted = 0
    /\ max_concurrent_streams = 0
    /\ attempts = 0
    /\ serveResult = "none"
    /\ inflight = 0
    /\ dispatched = 0
    /\ refused = 0
    /\ registry = None
    /\ owners = << >>
    /\ srv = None
    /\ netif_ip = None
    /\ mainErr = "none"
    /\ milestones = << >>
    /\ clientPc = "not_created"
    /\ curReq = "none"
    /\ taskExists = FALSE
    /\ jwt = None
    /\ request = None
    /\ body = <<>>
    /\ sent = <<>>
    /\ wire = <<>>
    /\ response_buf = <<>>
    /\ released = 0
    /\ trailers_result = "none"
    /\ h2_stored = 0
    /\ clientResult = "running"
    /\ clientNotif = NoNotif
    /\ mainNotif = NoNotif
    /\ notifyMainCalls = <<>>
    /\ log = {}
    /\ aborted = FALSE

(* ===================== main task: examples/esp32.rs ==================== *)
\* variant: the error of a step is dropped and main goes on to accept
MainReturnErr_Ignored == mainPc' = "accept"

\* `return Err(e)` / `?` out of main
MainReturnErr == mainPc' = "returned_err"

\* variant: the network steps are skipped
AfterRobot_SkipNetwork(q) == "start_client"

\* what follows the robot block: eth_configure with qemu (line 232), the
\* event-fd registration without (line 245)
AfterRobot(q) == IF q THEN "eth" ELSE "eventfd"

\* lines 56-230: build the robot from the hardware handles
BuildRobot ==
    /\ ~aborted /\ mainPc = "robot"
    /\ \/ /\ mainPc' = AfterRobot(qemu)
          /\ registry' = Some(BuildRegistry(qemu, camera))
          /\ owners' = Owners(BuildRegistry(qemu, camera), qemu)
          /\ milestones' = Append(milestones, "registry")
          /\ mainErr' = mainErr
       \/ /\ ~qemu /\ MainReturnErr     \* a driver constructor failed (`?`)
          /\ mainErr' = "robot"
          /\ UNCHANGED << registry, owners, milestones >>
    /\ UNCHANGED << cfgVars, ip, hnd, active, accepted, max_concurrent_streams,
                    attempts, serveResult, inflight, dispatched, refused,
                    srv, netif_ip, clientVars, taskExists, clientNotif,
                    mainNotif, log, aborted >>

\* lines 232-244 (feature qemu): eth_configure waits until the interface
\* has an address, then ip = Ipv4Addr::new(0, 0, 0, 0)
EthConfigure ==
    /\ ~aborted /\ mainPc = "eth"
    /\ \/ /\ mainPc' = "eventfd"
          /\ netif_ip' \in AcquiredIps
          /\ ip' = <<0, 0, 0, 0>>
          /\ milestones' = Append(milestones, "network")
          /\ mainErr' = mainErr
       \/ /\ MainReturnErr
          /\ mainErr' = "eth"
          /\ UNCHANGED << ip, netif_ip, milestones >>
    /\ UNCHANGED << cfgVars, hnd, active, accepted, max_concurrent_streams,
                    attempts, serveResult, inflight, dispatched, refused,
                    registry, owners, srv, clientVars, taskExists,
                    clientNotif, mainNotif, log, aborted >>

\* lines 245-251: esp_vfs_eventfd_register
EventfdRegister ==
    /\ ~aborted /\ mainPc = "eventfd"
    /\ \/ mainPc' = (IF qemu THEN "start_client" ELSE "wifi")
             /\ mainErr' = mainErr
       \/ MainReturnErr /\ mainErr' = "eventfd"
    /\ UNCHANGED << cfgVars, ip, hnd, active, accepted, max_concurrent_streams,
                    attempts, serveResult, inflight, dispatched, refused,
                    registry, owners, srv, netif_ip, milestones, clientVars,
                    taskExists, clientNotif, mainNotif, log, aborted >>

\* lines 254-258 (not qemu): start_wifi, ip = the station's address
StartWifi ==
    /\ ~aborted /\ mainPc = "wifi"
    /\ \/ /\ mainPc' = "start_client"
          /\ netif_ip' \in AcquiredIps
          /\ ip' = netif_ip'
          /\ milestones' = Append(milestones, "network")
          /\ mainErr' = mainErr
       \/ /\ MainReturnErr
          /\ mainErr' = "wifi"
          /\ UNCHANGED << ip, netif_ip, milestones >>
    /\ UNCHANGED << cfgVars, hnd, active, accepted, max_concurrent_streams,
                    attempts, serveResult, inflight, dispatched, refused,
                    registry, owners, srv, clientVars, taskExists,
                    clientNotif, mainNotif, log, aborted >>

\* lines 260-268 and robot_client::start: create the client task; a failure
\* is logged and main goes on without a handle
StartClient ==
    /\ ~aborted /\ mainPc = "start_client"
    /\ \/ /\ hnd' = Some("client")
          /\ taskExists' = TRUE
          /\ clientPc' = "tls"
          /\ log' = log
       \/ /\ hnd' = None
          /\ log' = log \cup {"couldn't start robot client"}
          /\ UNCHANGED << taskExists, clientPc >>
    /\ mainPc' = "mdns"
    /\ milestones' = IF hnd' # None THEN Append(milestones, "client")
                     ELSE milestones
    /\ UNCHANGED << registry, owners, srv, netif_ip, mainErr >>
    /\ UNCHANGED << cfgVars, ip, active, accepted, max_concurrent_streams,
                    attempts, serveResult, inflight, dispatched, refused,
                    curReq, jwt, request, body, sent, wire, response_buf,
                    released, trailers_result, clientResult, notifyMainCalls,
                    h2_stored, clientNotif,
                    mainNotif, aborted >>

\* lines 270-276: mDNS
Mdns ==
    /\ ~aborted /\ mainPc = "mdns"
    /\ \/ mainPc' = "listener" /\ mainErr' = mainErr
       \/ MainReturnErr /\ mainErr' = "mdns"
    /\ UNCHANGED << registry, owners, srv, netif_ip, milestones >>
    /\ UNCHANGED << cfgVars, ip, hnd, active, accepted, max_concurrent_streams,
                    attempts, serveResult, inflight, dispatched, refused, clientVars,
                    taskExists, clientNotif, mainNotif, log, aborted >>

\* an Err out of runserver: main logs it and returns it (lines 277-280)
RunserverErr ==
    /\ MainReturnErr
    /\ log' = log \cup {"robot server failed"}

\* runserver lines 285-299: TLS config, listener, executor, gRPC server
NewListener ==
    /\ ~aborted /\ mainPc = "listener"
    /\ \/ /\ mainPc' = "notify" /\ log' = log
          /\ srv' = Some(GrpcServerNew(registry[1]))
          /\ milestones' = Append(milestones, "server")
          /\ mainErr' = mainErr
       \/ /\ RunserverErr
          /\ mainErr' = "listener"
          /\ UNCHANGED << srv, milestones >>
    /\ UNCHANGED << registry, owners, netif_ip >>
    /\ UNCHANGED << cfgVars, ip, hnd, active, accepted, max_concurrent_streams,
                    attempts, serveResult, inflight, dispatched, refused, clientVars,
                    taskExists, clientNotif, mainNotif, aborted >>

\* runserver lines 300-311: notify(hnd, 1).  A handle of a task that has
\* deleted itself dangles: the call may succeed, fail or fault.
NotifyClient ==
    /\ ~aborted /\ mainPc = "notify"
    /\ IF hnd = None
       THEN /\ log' = log \cup {"no handle"}
            /\ mainPc' = "accept"
            /\ UNCHANGED << clientNotif, aborted >>
       ELSE IF taskExists
       THEN /\ clientNotif' = SetBits(clientNotif, 1)
            /\ log' = log \cup {"successfully notified client task"}
            /\ mainPc' = "delay"
            /\ UNCHANGED aborted
       ELSE \/ /\ log' = log \cup {"successfully notified client task"}
               /\ mainPc' = "delay"
               /\ UNCHANGED << clientNotif, aborted >>
            \/ /\ log' = log \cup {"failed to notify client task"}
               /\ mainPc' = "accept"
               /\ UNCHANGED << clientNotif, aborted >>
            \/ /\ aborted' = TRUE
               /\ UNCHANGED << clientNotif, log, mainPc >>
    /\ milestones' = IF mainPc' = "accept"
                     THEN Append(milestones, "accept_loop") ELSE milestones
    /\ UNCHANGED << registry, owners, srv, netif_ip, mainErr >>
    /\ UNCHANGED << cfgVars, ip, hnd, active, accepted, max_concurrent_streams,
                    attempts, serveResult, inflight, dispatched, refused, clientVars,
                    taskExists, mainNotif >>

\* runserver line 304: vTaskDelay(1000)
Delay ==
    /\ ~aborted /\ mainPc = "delay"
    /\ mainPc' = "accept"
    /\ milestones' = Append(milestones, "accept_loop")
    /\ UNCHANGED << registry, owners, srv, netif_ip, mainErr >>
    /\ UNCHANGED << cfgVars, ip, hnd, active, accepted, max_concurrent_streams,
                    attempts, serveResult, inflight, dispatched, refused, clientVars,
                    taskExists, clientNotif, mainNotif, log, aborted >>

\* variant: two concurrent streams allowed
HTTP2_MAX_CONCURRENT_STREAMS_Two == 1 + 1

\* .http2_max_concurrent_streams(1), line 317
HTTP2_MAX_CONCURRENT_STREAMS == 1

\* variant: the serve future is spawned and the loop accepts again at once
AfterAccept_Spawned == "accept"

\* where main goes with an accepted stream: block_on(serve_connection),
\* lines 314-323, which does not return before the connection has ended
AfterAccept == "serving"

\* Esp32Listener::accept: blocks until a client arrives, performs the TLS
\* handshake inline and returns the ready stream, or the socket / handshake
\* error
AcceptOutcomes == {"Ok", "Err"}

\* runserver line 313: listener.accept()?  Ok gives the stream to
\* serve_connection, Err leaves runserver through `?`
Accept ==
    /\ ~aborted /\ mainPc = "accept"
    /\ \E r \in AcceptOutcomes :
          IF r = "Ok"
          THEN /\ accepted < MaxConns
               /\ accepted' = accepted + 1
               /\ active' = active \cup {accepted + 1}
               /\ max_concurrent_streams' = HTTP2_MAX_CONCURRENT_STREAMS
               /\ mainPc' = AfterAccept
               /\ log' = log
               /\ mainErr' = mainErr
          ELSE /\ RunserverErr
               /\ mainErr' = "accept"
               /\ UNCHANGED << accepted, active, max_concurrent_streams >>
    /\ UNCHANGED << registry, owners, srv, netif_ip, milestones >>
    /\ UNCHANGED << cfgVars, ip, hnd, attempts, serveResult, inflight,
                    dispatched, refused, clientVars, taskExists, clientNotif,
                    mainNotif, aborted >>

\* the LAN client opens a stream on the served connection: it is dispatched
\* to a handler unless max_concurrent_streams are already open, then refused
OpenStream ==
    /\ ~aborted /\ active # {}
    /\ attempts < MaxStreamAttempts
    /\ attempts' = attempts + 1
    /\ UNCHANGED bootVars
    /\ IF inflight < max_concurrent_streams
       THEN /\ inflight' = inflight + 1
            /\ dispatched' = dispatched + 1
            /\ refused' = refused
       ELSE /\ refused' = refused + 1
            /\ UNCHANGED << inflight, dispatched >>
    /\ UNCHANGED << cfgVars, ip, mainPc, hnd, active, accepted,
                    max_concurrent_streams, serveResult, clientVars,
                    taskExists, clientNotif, mainNotif, log, aborted >>

\* a handler finishes: its stream is closed
HandlerDone ==
    /\ ~aborted /\ active # {}
    /\ inflight > 0
    /\ inflight' = inflight - 1
    /\ srv' = Some(HandlerEffect(srv[1]))
    /\ UNCHANGED << registry, owners, netif_ip, mainErr, milestones >>
    /\ UNCHANGED << cfgVars, ip, mainPc, hnd, active, accepted,
                    max_concurrent_streams, attempts, serveResult, dispatched,
                    refused, clientVars, taskExists, clientNotif, mainNotif,
                    log, aborted >>

\* lines 314-319: the serve future resolves, cleanly or with an error; the
\* connection and whatever ran on it are gone
ServeEnd ==
    /\ ~aborted /\ mainPc = "serving"
    /\ serveResult' \in {"Ok", "Err"}
    /\ UNCHANGED bootVars
    /\ active' = {}
    /\ inflight' = 0
    /\ attempts' = 0
    /\ dispatched' = 0
    /\ refused' = 0
    /\ mainPc' = "served"
    /\ UNCHANGED << cfgVars, ip, hnd, accepted, max_concurrent_streams,
                    clientVars, taskExists, clientNotif, mainNotif, log,
                    aborted >>

\* `loop { ... }`, lines 312-324: after the body comes the next accept()
LoopNext == "accept"

\* lines 320-324: an error is logged; either way the loop goes round
AfterServe ==
    /\ ~aborted /\ mainPc = "served"
    /\ log' = IF serveResult = "Err" THEN log \cup {"server error"} ELSE log
    /\ serveResult' = "none"
    /\ mainPc' = LoopNext
    /\ UNCHANGED bootVars
    /\ UNCHANGED << cfgVars, ip, hnd, active, accepted,
                    max_concurrent_streams, attempts, inflight, dispatched,
                    refused, clientVars, taskExists, clientNotif, mainNotif,
                    aborted >>

MainStep ==
    \/ BuildRobot \/ EthConfigure \/ EventfdRegister \/ StartWifi
    \/ StartClient \/ Mdns \/ NewListener \/ NotifyClient \/ Delay
    \/ Accept \/ OpenStream \/ HandlerDone \/ ServeEnd \/ AfterServe

(* ============ cloud client task: src/esp32/robot_client.rs ============= *)
AUTHENTICATE_PATH == "/proto.rpc.v1.AuthService/Authenticate"
CONFIG_PATH == "/viam.app.v1.RobotService/Config"

PathOf(req) == IF req = "Authenticate" THEN AUTHENTICATE_PATH ELSE CONFIG_PATH

\* variant: the authorization header is never added
build_request_NoAuthorization(self_jwt, path) ==
    [ method  |-> "POST",
      uri     |-> "https://app.viam.com:443" \o path,
      headers |-> << <<"content-type", "application/grpc">>,
                     <<"te", "trailers">>,
                     <<"user-agent", "esp32">> >>,
      authorization |-> None ]

\* RobotClient::build_request, lines 77-93
build_request(self_jwt, path) ==
    [ method  |-> "POST",
      uri     |-> "https://app.viam.com:443" \o path,
      headers |-> << <<"content-type", "application/grpc">>,
                     <<"te", "trailers">>,
                     <<"user-agent", "esp32">> >>,
      authorization |-> IF self_jwt # None THEN Some(self_jwt[1]) ELSE None ]

\* the message each call serializes (lines 99-110 and 137-145)
PayloadOf(req, id, secret, addr) ==
    IF req = "Authenticate" THEN EncodeAuthenticateRequest(id, secret)
    ELSE EncodeConfigRequest(id, addr)

\* variant: the token is stored without the "Bearer " prefix
StoreJwt_NoPrefix(access_token) == Some(access_token)

\* self.jwt = Some(format!("Bearer {}", r.access_token)), line 163
StoreJwt(access_token) == Some(BEARER \o access_token)

\* the locals of a call (dropped when clientloop returns)
callVars == << request, body, wire, response_buf, released,
              trailers_result >>

DropCall ==
    /\ request' = None
    /\ body' = <<>>
    /\ wire' = <<>>
    /\ response_buf' = <<>>
    /\ released' = 0
    /\ trailers_result' = "none"

\* an Err propagated by `?` out of clientloop
ClientReturnErr ==
    /\ clientResult' = "Err"
    /\ clientPc' = "returned"
    /\ DropCall

\* clientloop lines 223-225: TLS client context to app.viam.com
ClientTls ==
    /\ ~aborted /\ clientPc = "tls"
    /\ \/ clientPc' = "handshake" /\ UNCHANGED << clientResult, callVars >>
       \/ ClientReturnErr
    /\ UNCHANGED << cfgVars, ip, mainVars, curReq, jwt, sent, notifyMainCalls, h2_stored,
                    taskExists,
                    clientNotif, mainNotif, log, aborted >>

\* clientloop lines 228-233: HTTP/2 handshake, spawn the connection task,
\* RobotClient::new (jwt: None)
ClientHandshake ==
    /\ ~aborted /\ clientPc = "handshake"
    /\ \/ /\ clientPc' = "build"
          /\ curReq' = "Authenticate"
          /\ jwt' = None
          /\ UNCHANGED << clientResult, callVars >>
       \/ /\ ClientReturnErr
          /\ UNCHANGED << curReq, jwt >>
    /\ UNCHANGED << cfgVars, ip, mainVars, sent, notifyMainCalls, h2_stored,
                    taskExists, clientNotif,
                    mainNotif, log, aborted >>

\* request_jwt_token lines 135-157 / read_config lines 97-122: build the
\* request and its framed body
BuildRequest ==
    /\ ~aborted /\ clientPc = "build"
    /\ request' = Some(build_request(jwt, PathOf(curReq)))
    /\ body' = FrameBody(PayloadOf(curReq, robot_id, robot_secret, ip))
    /\ clientPc' = "ready"
    /\ UNCHANGED << cfgVars, ip, mainVars, curReq, jwt, sent, notifyMainCalls, h2_stored,
                    wire,
                    response_buf, released, trailers_result, clientResult,
                    taskExists,
                    clientNotif, mainNotif, log, aborted >>

\* send_request line 172: h2.ready()
Ready ==
    /\ ~aborted /\ clientPc = "ready"
    /\ \/ clientPc' = "send_headers" /\ UNCHANGED << clientResult, callVars >>
       \/ ClientReturnErr
    /\ UNCHANGED << cfgVars, ip, mainVars, curReq, jwt, sent, notifyMainCalls, h2_stored,
                    taskExists,
                    clientNotif, mainNotif, log, aborted >>

\* variant: the headers already end the stream
HEADERS_END_OF_STREAM_True == TRUE

\* the second argument of h2.send_request(r, false), line 175
HEADERS_END_OF_STREAM == FALSE

\* send_request line 175: h2.send_request(r, false)
SendHeaders ==
    /\ ~aborted /\ clientPc = "send_headers"
    /\ \/ /\ sent' = Append(sent, [ request |-> request[1], body |-> <<>>,
                                    has_body |-> FALSE,
                                    end_of_stream |-> HEADERS_END_OF_STREAM ])
          /\ clientPc' = "send_data"
          /\ UNCHANGED << clientResult, callVars >>
       \/ /\ ClientReturnErr
          /\ sent' = sent
    /\ UNCHANGED << cfgVars, ip, mainVars, curReq, jwt, notifyMainCalls, h2_stored,
                    taskExists,
                    clientNotif, mainNotif, log, aborted >>

\* send_request line 177: send.send_data(body, true)
SendData ==
    /\ ~aborted /\ clientPc = "send_data"
    /\ \/ /\ sent' = [sent EXCEPT ![Len(sent)] =
                         [@ EXCEPT !.body = body, !.has_body = TRUE,
                                   !.end_of_stream = TRUE]]
          /\ clientPc' = "await_response"
          /\ UNCHANGED << clientResult, callVars >>
       \/ /\ ClientReturnErr
          /\ sent' = sent
    /\ UNCHANGED << cfgVars, ip, mainVars, curReq, jwt, notifyMainCalls, h2_stored,
                    taskExists,
                    clientNotif, mainNotif, log, aborted >>

\* send_request lines 179-182: the response headers arrive; the cloud has
\* some body to deliver
AwaitResponse ==
    /\ ~aborted /\ clientPc = "await_response"
    /\ \/ /\ wire' \in ResponseBodies
          /\ response_buf' = <<>>
          /\ released' = 0
          /\ clientPc' = "data"
          /\ UNCHANGED << clientResult, request, body, trailers_result >>
       \/ ClientReturnErr
    /\ UNCHANGED << cfgVars, ip, mainVars, curReq, jwt, sent, notifyMainCalls, h2_stored,
                    taskExists,
                    clientNotif, mainNotif, log, aborted >>

\* variant: the capacity of a chunk is never given back
release_capacity_Kept(total, sz) == total

\* body.flow_control().release_capacity(chunk.len()), line 187: the
\* capacity given back so far grows by the length of the chunk
release_capacity(total, sz) == total + sz

\* send_request lines 184-188: one body.data(): a chunk that is appended and
\* released, an error that aborts the call, or the end of the body
Data ==
    /\ ~aborted /\ clientPc = "data"
    /\ \/ /\ wire # <<>>
          /\ \E k \in 1..Min(MaxChunk, Len(wire)) :
                /\ response_buf' = response_buf \o SubSeq(wire, 1, k)
                /\ released' = release_capacity(released, k)
                /\ wire' = SubSeq(wire, k + 1, Len(wire))
          /\ UNCHANGED << clientPc, clientResult, request, body,
                          trailers_result >>
       \/ ClientReturnErr
       \/ /\ wire = <<>>
          /\ clientPc' = "trailers"
          /\ UNCHANGED << clientResult, callVars >>
    /\ UNCHANGED << cfgVars, ip, mainVars, curReq, jwt, sent, notifyMainCalls, h2_stored,
                    taskExists,
                    clientNotif, mainNotif, log, aborted >>

\* what `body.trailers().await` can return: the trailers or an error
TrailersOutcomes == { "Ok", "Err" }

\* send_request lines 190-194: trailers (result ignored), self.h2 = h2
Trailers ==
    /\ ~aborted /\ clientPc = "trailers"
    /\ trailers_result' \in TrailersOutcomes
    /\ h2_stored' = h2_stored + 1
    /\ clientPc' = "decode"
    /\ UNCHANGED << cfgVars, ip, mainVars, curReq, jwt, sent, notifyMainCalls,
                    request, body, wire, response_buf, released,
                    clientResult, taskExists, clientNotif, mainNotif, log,
                    aborted >>

\* lines 160-165 / 125-130: r.split_off(5) panics when the response has
\* fewer than 5 bytes, and a panic in the task aborts the firmware; else
\* the rest is decoded
Decode ==
    /\ ~aborted /\ clientPc = "decode"
    /\ IF Len(response_buf) < PREFIX_LEN
       THEN /\ aborted' = TRUE
            /\ UNCHANGED << clientPc, curReq, jwt, clientResult, log,
                            callVars >>
       ELSE /\ aborted' = aborted
            /\ LET r == split_off_tail(response_buf, PREFIX_LEN)
               IN  IF curReq = "Authenticate"
                   THEN LET d == DecodeAuthenticateResponse(r)
                        IN  IF d.ok
                            THEN /\ jwt' = StoreJwt(d.access_token)
                                 /\ curReq' = "Config"
                                 /\ clientPc' = "build"
                                 /\ DropCall
                                 /\ UNCHANGED << clientResult, log >>
                            ELSE /\ ClientReturnErr
                                 /\ UNCHANGED << curReq, jwt, log >>
                   ELSE LET d == DecodeConfigResponse(r)
                        IN  IF d.ok
                            THEN /\ log' = log \cup {"cfg"}
                                 /\ clientPc' = "check_handle"
                                 /\ DropCall
                                 /\ UNCHANGED << curReq, jwt, clientResult >>
                            ELSE /\ ClientReturnErr
                                 /\ UNCHANGED << curReq, jwt, log >>
    /\ UNCHANGED << cfgVars, ip, mainVars, sent, notifyMainCalls, h2_stored,
                    taskExists, clientNotif,
                    mainNotif >>

\* clientloop line 230: the spawned task unwraps the connection's result; a
\* connection error seen while the executor runs panics
ConnTaskPanic ==
    /\ ~aborted
    /\ clientPc \in {"ready", "await_response", "data", "trailers"}
    /\ aborted' = TRUE
    /\ UNCHANGED << cfgVars, ip, mainVars, clientVars, taskExists,
                    clientNotif, mainNotif, log >>

\* clientloop line 237: the stand-down wait is entered only without a handle
CheckHandle ==
    /\ ~aborted /\ clientPc = "check_handle"
    /\ IF main_handle = None
       THEN clientPc' = "wait" /\ clientResult' = clientResult
       ELSE clientPc' = "returned" /\ clientResult' = "Ok"
    /\ UNCHANGED << cfgVars, ip, mainVars, curReq, jwt, sent, notifyMainCalls, h2_stored,
                    callVars,
                    taskExists, clientNotif, mainNotif, log, aborted >>

\* esp_idf_hal::task::wait_notification(Some(30 s)), line 239: the value of
\* a notification that is pending or arrives in time, None on timeout
wait_notification(n) == IF n.pending THEN Some(n.value) ELSE None

\* variant: the loop is left after a timeout as well
LoopBreaks_OnTimeout(r) == TRUE

\* `if let Some(_r) = wait_notification(..) { ..; break; }`, lines 239-242:
\* the value is not looked at
LoopBreaks(r) == r # None

\* clientloop lines 238-248: wait_notification(30 s); Some(_) ends the loop,
\* None (timeout) goes round again
Wait ==
    /\ ~aborted /\ clientPc = "wait"
    /\ IF LoopBreaks(wait_notification(clientNotif))
       THEN /\ clientNotif' = NoNotif
            /\ log' = log \cup {"connection incomming"}
            /\ clientPc' = "returned"
            /\ clientResult' = "Ok"
       ELSE UNCHANGED << clientNotif, log, clientPc, clientResult >>
    /\ UNCHANGED << cfgVars, ip, mainVars, curReq, jwt, sent, notifyMainCalls, h2_stored,
                    callVars,
                    taskExists, mainNotif, aborted >>

\* client_entry lines 254-256: log the error of clientloop
ClientEntry ==
    /\ ~aborted /\ clientPc = "returned"
    /\ log' = IF clientResult = "Err"
              THEN log \cup {"client returned with error"} ELSE log
    /\ clientPc' = "notify_main"
    /\ UNCHANGED << cfgVars, ip, mainVars, curReq, jwt, sent, notifyMainCalls, h2_stored,
                    callVars,
                    clientResult, taskExists, clientNotif, mainNotif,
                    aborted >>

\* variant: client_entry notifies nobody
NotifiesMain_Never(handle) == FALSE

\* `if let Some(hnd) = config.main_handle`, line 257: whatever clientloop
\* returned
NotifiesMain(handle) == handle # None

\* variant: the exit notification carries 1
EXIT_NOTIFY_VALUE_One == 0 + 1

\* notify(hnd, 0), line 259
EXIT_NOTIFY_VALUE == 0

\* client_entry lines 257-261: notify(hnd, 0) when a main handle was set.
\* The handle of a main task that has returned dangles: the call may do
\* nothing or fault.
NotifyMain ==
    /\ ~aborted /\ clientPc = "notify_main"
    /\ IF ~NotifiesMain(main_handle)
       THEN UNCHANGED << mainNotif, notifyMainCalls, aborted >>
       ELSE /\ notifyMainCalls' = Append(notifyMainCalls, EXIT_NOTIFY_VALUE)
            /\ IF mainPc # "returned_err"
               THEN /\ mainNotif' = SetBits(mainNotif, EXIT_NOTIFY_VALUE)
                    /\ aborted' = aborted
               ELSE \/ UNCHANGED << mainNotif, aborted >>
                    \/ aborted' = TRUE /\ mainNotif' = mainNotif
    /\ clientPc' = IF aborted' THEN clientPc ELSE "delete"
    /\ UNCHANGED << cfgVars, ip, mainVars, curReq, jwt, sent, h2_stored, callVars,
                    clientResult, taskExists, clientNotif, log >>

\* client_entry lines 262-264: vTaskDelete(null)
DeleteTask ==
    /\ ~aborted /\ clientPc = "delete"
    /\ taskExists' = FALSE
    /\ clientPc' = "deleted"
    /\ UNCHANGED << cfgVars, ip, mainVars, curReq, jwt, sent, notifyMainCalls, h2_stored,
                    callVars,
                    clientResult, clientNotif, mainNotif, log, aborted >>

ClientStep ==
    \/ ClientTls \/ ClientHandshake \/ BuildRequest \/ Ready \/ SendHeaders
    \/ SendData \/ AwaitResponse \/ Data \/ Trailers \/ Decode
    \/ ConnTaskPanic \/ CheckHandle \/ Wait \/ ClientEntry \/ NotifyMain
    \/ DeleteTask

Next == MainStep \/ ClientStep

Spec == Init /\ [][Next]_vars

\* Fair scheduling: the client task is created pinned to core 0
\* (xTaskCreatePinnedToCore, robot_client.rs:204-213) and the main task
\* blocks in accept, delay and I/O, so each task that can take a step
\* eventually takes one, and every I/O call eventually returns.
FairSpec == Spec /\ WF_vars(MainStep) /\ WF_vars(ClientStep)

(* =============================== claims ================================ *)
BootstrapIO == { "tls", "handshake", "build", "ready", "send_headers",
                 "send_data", "await_response", "data", "trailers", "decode" }

\* main is between the creation of the client task and the end of runserver
PastStart == mainPc \in { "mdns", "listener", "notify", "delay", "accept",
                          "serving", "served" }

\* the client cannot bootstrap any more: main has no client task (it could
\* not be created), or clientloop returned an error
ClientFailed == hnd = None \/ clientResult = "Err"

\* C1: bootstrap ordering.  Once accept() has returned a stream, the cloud
\* client has notified main or has failed, and it is not in the middle of
\* its TLS / handshake / Authenticate / Config I/O.
C1_BootstrapBeforeFirstAccept ==
    accepted >= 1 =>
        /\ mainNotif.pending \/ ClientFailed
        /\ clientPc \notin BootstrapIO

\* C2: a failure of accept() (TLS handshake or socket) is fatal for that
\* connection only: from the accept position the main task stays in the
\* accept loop, it never returns from runserver.
C2_AcceptFailureKeepsLoop ==
    [][ mainPc = "accept" => mainPc' \in {"accept", "serving"} ]_vars

\* C3: once the accept loop has been entered, an error of serving a
\* connection is logged and followed by the next accept(), and only failures
\* before the first accept() are fatal: after a stream has been accepted the
\* main task never returns.
C3_OnlyPreAcceptFailuresFatal ==
    [][ /\ (mainPc = "served" /\ serveResult = "Err" /\ mainPc' # mainPc)
            => (mainPc' = "accept" /\ "server error" \in log')
        /\ (accepted >= 1 => mainPc' # "returned_err") ]_vars

\* C4: a cloud bootstrap failure is never fatal to the server: a client task
\* that cannot be created, and an error of clientloop, are logged, and nothing
\* the client task runs into takes the firmware (and the main task) down.
C4_BootstrapFailureNotFatal ==
    /\ (PastStart /\ hnd = None) => "couldn't start robot client" \in log
    /\ (clientResult = "Err" /\ clientPc \in {"notify_main", "delete", "deleted"})
          => "client returned with error" \in log
    /\ ~aborted

\* the Config exchange has succeeded (read_config logged the config)
ConfigSucceeded == "cfg" \in log

HasPrefix(str, pre) ==
    Len(str) >= Len(pre) /\ SubSeq(str, 1, Len(pre)) = pre

\* C6: jwt is None until an Authenticate response has been received and
\* decoded, then it is Some("Bearer " + access_token), and nothing, a later
\* failing request included, clears or changes it.
C6_JwtSetOnceByAuthenticate ==
    /\ [](curReq \in {"none", "Authenticate"} => jwt = None)
    /\ [](curReq = "Config" => jwt # None /\ HasPrefix(jwt[1], BEARER))
    /\ [][ /\ jwt # None => jwt' = jwt
           /\ (jwt = None /\ jwt' # None) =>
                 /\ clientPc = "decode" /\ curReq = "Authenticate"
                 /\ Len(response_buf) >= 5
                 /\ LET d == DecodeAuthenticateResponse(
                                 SubSeq(response_buf, 6, Len(response_buf)))
                    IN  d.ok /\ jwt' = << BEARER \o d.access_token >> ]_vars

C6_Witness ==
    /\ jwt # None /\ Len(jwt[1]) > Len(BEARER)
    /\ clientResult = "Err" /\ clientPc = "deleted"

\* the message the i-th request of the client carries
ExpectedPayload(i) ==
    IF i = 1 THEN EncodeAuthenticateRequest(robot_id, robot_secret)
    ELSE EncodeConfigRequest(robot_id, ip)

\* the number in bytes 2..5 of a body, big-endian
LengthPrefix(b) == b[2] * 16777216 + b[3] * 65536 + b[4] * 256 + b[5]

IsFramed(b, payload) ==
    /\ Len(b) = 5 + Len(payload)
    /\ b[1] = 0
    /\ \A j \in 1..Len(b) : b[j] \in 0..255
    /\ LengthPrefix(b) = Len(payload)
    /\ SubSeq(b, 6, Len(b)) = payload

\* C7: every request body the client sends (Authenticate, Config) is the
\* byte 0, the 4-byte big-endian length of the payload, then the payload and
\* nothing else.
C7_BodyIsFramedPayload ==
    /\ Len(sent) <= 2
    /\ \A i \in 1..Len(sent) :
          sent[i].has_body => IsFramed(sent[i].body, ExpectedPayload(i))
    /\ body # <<>> => IsFramed(body, ExpectedPayload(IF curReq = "Authenticate"
                                                     THEN 1 ELSE 2))

C7_Witness ==
    /\ Len(sent) = 2 /\ sent[1].has_body /\ sent[2].has_body
    /\ Len(sent[1].body) # Len(sent[2].body)

HasHeader(r, name, value) ==
    \E j \in 1..Len(r.headers) : r.headers[j] = << name, value >>

FixedParts(r, uri) ==
    /\ r.method = "POST"
    /\ r.uri = uri
    /\ HasHeader(r, "content-type", "application/grpc")
    /\ HasHeader(r, "te", "trailers")
    /\ HasHeader(r, "user-agent", "esp32")

\* C8: every request is a POST to https://app.viam.com:443<path> with
\* content-type application/grpc, te trailers and user-agent esp32; it has an
\* authorization header exactly when a JWT exists when it is built: none on
\* Authenticate, the stored "Bearer " token on Config.
C8_RequestHeaders ==
    /\ request # None =>
          /\ request[1].authorization = jwt
          /\ FixedParts(request[1],
                IF curReq = "Authenticate"
                THEN "https://app.viam.com:443/proto.rpc.v1.AuthService/Authenticate"
                ELSE "https://app.viam.com:443/viam.app.v1.RobotService/Config")
    /\ Len(sent) >= 1 =>
          /\ FixedParts(sent[1].request,
                "https://app.viam.com:443/proto.rpc.v1.AuthService/Authenticate")
          /\ sent[1].request.authorization = None
    /\ Len(sent) >= 2 =>
          /\ FixedParts(sent[2].request,
                "https://app.viam.com:443/viam.app.v1.RobotService/Config")
          /\ jwt # None
          /\ sent[2].request.authorization = jwt
          /\ HasPrefix(jwt[1], BEARER)

C8_Witness ==
    /\ Len(sent) = 2
    /\ sent[1].request.authorization = None
    /\ sent[2].request.authorization # None

\* C9: one connection at a time: at most one accepted connection is being
\* served, accept() is only called when the previous serve future has
\* resolved, and from serving control always comes back to the accept loop.
C9_OneConnectionAtATime ==
    /\ [](Cardinality(active) <= 1)
    /\ [](mainPc = "accept" => active = {})
    /\ [][ /\ accepted' > accepted => active = {}
           /\ mainPc \in {"serving", "served"}
                 => mainPc' \in {"serving", "served", "accept"} ]_vars

C9_Witness ==
    accepted = 2 /\ active = {2} /\ mainPc = "serving"

\* C10: every served connection has max_concurrent_streams = 1: never two
\* handlers at once, and a stream opened while one is in flight is refused.
C10_SingleStreamInFlight ==
    /\ [](active # {} => max_concurrent_streams = 1)
    /\ [](inflight <= 1)
    /\ [][ (attempts' = attempts + 1 /\ inflight >= 1)
             => /\ refused' = refused + 1
                /\ inflight' = inflight
                /\ dispatched' = dispatched ]_vars

C10_Witness ==
    active # {} /\ inflight = 1 /\ dispatched = 1 /\ refused = 1

(* --------------------------------- C11 --------------------------------- *)
\* C11: once Esp32Robot::new has returned the registry, no step adds,
\* removes or retypes an entry: the map main built stays as it is, and the
\* robot inside the gRPC server is that map, while the client task runs and
\* while connections are served.
C11_RegistryFixed ==
    [][ /\ (registry # None => registry' = registry)
        /\ (srv' # None => srv' = registry') ]_vars

\* a request has been served on a connection while the client task exists
C11_Witness ==
    /\ registry # None /\ srv = registry
    /\ Cardinality(registry[1]) >= 3
    /\ mainPc = "serving" /\ dispatched >= 1 /\ inflight = 0
    /\ taskExists /\ clientPc # "deleted"

(* --------------------------------- C12 --------------------------------- *)
EntryHolder(e) == [ kind |-> "entry", of |-> e.key.name ]

\* C12 as stated: every driver placed in the registry is strongly owned by
\* its own registry entry and by nothing else, in particular not by another
\* registry entry.
C12_RegistrySoleOwner ==
    registry # None =>
        \A e \in registry[1] : owners[e.value.driver] = { EntryHolder(e) }

\* C12 amended: every driver placed in the registry is strongly owned by its
\* own entry; any other strong owner is the base driver, itself a registry
\* entry, holding the motors it drives; nothing outside the registry owns a
\* driver, and with qemu each driver's only owner is its entry.
C12_OwnersInsideRegistry ==
    registry # None =>
        \A e \in registry[1] :
            LET d == e.value.driver IN
            /\ EntryHolder(e) \in owners[d]
            /\ \A h \in owners[d] :
                  \/ h = EntryHolder(e)
                  \/ /\ h.kind = "driver" /\ h.of # d
                     /\ e.value.variant = "Motor"
                     /\ \E f \in registry[1] :
                            f.value.driver = h.of /\ f.value.variant = "Base"
            /\ (qemu => owners[d] = { EntryHolder(e) })

\* the build for the hardware is serving with both motors held by the base
C12_Witness ==
    /\ ~qemu /\ registry # None /\ mainPc = "serving"
    /\ [ kind |-> "driver", of |-> "base" ] \in owners["motor"]
    /\ [ kind |-> "driver", of |-> "base" ] \in owners["m2"]

(* --------------------------------- C13 --------------------------------- *)
\* the boot steps of main and runserver that can return an error: the driver
\* constructors, eth_configure, esp_vfs_eventfd_register, start_wifi, the
\* mDNS calls and Esp32Listener::new (the TLS server configuration of lines
\* 285-295 has no fallible call)
BringUpSteps == { "robot", "eth", "eventfd", "wifi", "mdns", "listener" }

Range(seq) == { seq[i] : i \in 1..Len(seq) }

UNSPECIFIED == <<0, 0, 0, 0>>

\* C14 as stated: the local_ip of the client's configuration is the non-zero
\* address the interface acquired at bring-up, and the Config request
\* carries exactly that address in AgentInfo.ips, in every build.
C14_LocalIpIsAcquiredAddress ==
    /\ ip # None => (ip = netif_ip /\ ip # UNSPECIFIED)
    /\ (Len(sent) >= 2 /\ sent[2].has_body) =>
          sent[2].body = FrameBody(EncodeConfigRequest(robot_id, netif_ip))

(* --------------------------------- C15 --------------------------------- *)
\* C15 as stated: when the body of the Authenticate or Config response is a
\* whole frame whose flag byte is not 0, decoding it makes the request fail
\* with an error; jwt is not set and the Config exchange is not reported as
\* done.
C15_NonZeroFlagRejected ==
    [][ ( /\ clientPc = "decode" /\ clientPc' # "decode"
          /\ Len(response_buf) >= PREFIX_LEN
          /\ response_buf[1] # 0 )
        => /\ clientResult' = "Err"
           /\ jwt' = jwt
           /\ log' = log ]_vars

(* --------------------------------- C16 --------------------------------- *)
\* C16: when the response body is FrameBody(m) for a message m, the body
\* has length 5 + Len(m) and first byte 0, the part the client splits off
\* and decodes is m, which is as long as the length prefix says, and the
\* token stored from an Authenticate response is the one encoded in m.
C16_FramingRoundTrip ==
    /\ [](\A m \in ResponsePayloads :
            (clientPc = "decode" /\ response_buf = FrameBody(m)) =>
                LET r == split_off_tail(response_buf, PREFIX_LEN) IN
                /\ r = m
                /\ Len(response_buf) = PREFIX_LEN + Len(m)
                /\ response_buf[1] = 0
                /\ LengthPrefix(response_buf) = Len(r))
    /\ [][ \A t \in Tokens :
             ( /\ clientPc = "decode" /\ clientPc' # "decode"
               /\ curReq = "Authenticate"
               /\ response_buf = FrameBody(EncString(1, t)) )
             => jwt' = Some(BEARER \o t) ]_vars

\* the client is about to decode a response that is the framing of a
\* message with a token of the greatest length
C16_Witness ==
    /\ clientPc = "decode" /\ curReq = "Authenticate" /\ ~aborted
    /\ response_buf = FrameBody(EncString(1, RepeatByte(116, MaxTokenLen)))

Pos(order, m) == CHOOSE i \in 1..Len(order) : order[i] = m

\* the steps done so far were done in the order given, each once, and none
\* was done before the step the order puts right before it, except that the
\* steps in `optional` may be missing
FollowsOrder(ms, order, optional) ==
    /\ \A i, j \in 1..Len(ms) :
          i < j => Pos(order, ms[i]) < Pos(order, ms[j])
    /\ \A i \in 1..Len(ms) : \A k \in 1..Len(order) :
          (k < Pos(order, ms[i]) /\ order[k] \notin optional)
              => order[k] \in Range(ms)

\* C18 as stated: the network is up before the registry is built, the
\* registry is built before the client task is spawned, the client is
\* spawned before main creates listener, executor and gRPC server, and the
\* accept loop is entered last.
C18_NetworkThenRegistry ==
    FollowsOrder(milestones,
                 << "network", "registry", "client", "server", "accept_loop" >>,
                 {})

\* C18 amended: the registry is built first, then the network is brought
\* up, then the client task is spawned (when the spawn fails main goes on
\* without it), then main creates listener, executor and gRPC server, and
\* it enters the accept loop last.
C18_RegistryThenNetwork ==
    FollowsOrder(milestones,
                 << "registry", "network", "client", "server", "accept_loop" >>,
                 { "client" })

\* main has reached its accept loop with the client task spawned
C18_Witness ==
    /\ milestones =
          << "registry", "network", "client", "server", "accept_loop" >>
    /\ mainPc = "accept"

(* --------------------------------- C19 --------------------------------- *)
\* C19 as stated: main never returns Ok, and when the main task has stopped
\* it has returned the error of a bring-up step.
C19_MainStopsOnlyOnBringUpError ==
    /\ mainPc # "returned_ok"
    /\ mainPc = "returned_err" => mainErr \in BringUpSteps

(* --------------------------------- C20 --------------------------------- *)
\* the positions of a request/response exchange of the client
CallPcs == BootstrapIO \ { "tls", "handshake" }

\* how far the client has come: TLS, handshake, Authenticate, Config, the
\* stand-down, the end of clientloop
ClientRank ==
    CASE clientPc = "not_created" -> 0
      [] clientPc = "tls" -> 1
      [] clientPc = "handshake" -> 2
      [] clientPc \in CallPcs /\ curReq = "Authenticate" -> 3
      [] clientPc \in CallPcs /\ curReq # "Authenticate" -> 4
      [] clientPc \in { "check_handle", "wait" } -> 5
      [] OTHER -> 6

\* C20 as stated: the client goes through TLS connect, handshake,
\* Authenticate, Config in this order, one after the other; the first
\* request sent is Authenticate and a Config request is sent only with a
\* jwt; a failure at any step makes clientloop return the error: nothing is
\* sent and jwt is not set afterwards, the wait loop is not entered, the
\* error is logged before the task ends, and no failure of a step takes
\* the task down in another way.
C20_StepsInOrderFailureSkipsRest ==
    /\ [][ \/ ClientRank' = ClientRank
           \/ ClientRank' = ClientRank + 1
           \/ ClientRank' = 6 ]_vars
    /\ [](Len(sent) >= 1 => sent[1].request.uri
                               = "https://app.viam.com:443" \o AUTHENTICATE_PATH)
    /\ [](Len(sent) >= 2 =>
             /\ sent[2].request.uri = "https://app.viam.com:443" \o CONFIG_PATH
             /\ jwt # None)
    /\ [](clientResult = "Err" =>
             /\ clientPc \in { "returned", "notify_main", "delete", "deleted" }
             /\ clientPc # "returned" => "client returned with error" \in log)
    /\ [][ clientResult = "Err" =>
             /\ sent' = sent /\ jwt' = jwt
             /\ clientResult' = "Err" /\ clientPc' # "wait" ]_vars
    /\ [][ (~aborted /\ aborted') => clientPc \notin BootstrapIO ]_vars

(* --------------------------------- C21 --------------------------------- *)
\* C21: while a response is read, every chunk received is appended to the
\* response buffer and its length is released before the next chunk is
\* asked for, so the capacity released is at all times the length of the
\* buffer, also when the body has ended; a chunk that is an error ends the
\* request with nothing appended and nothing released for it.
C21_ReleasedEqualsAppended ==
    /\ [](released = Len(response_buf))
    /\ [][ (clientPc = "data" /\ clientPc' = "data"
              /\ response_buf' # response_buf) =>
             LET n == Len(response_buf') - Len(response_buf) IN
             /\ n >= 1
             /\ Len(wire') = Len(wire) - n
             /\ response_buf' = response_buf \o SubSeq(wire, 1, n)
             /\ released' = released + n ]_vars
    /\ [][ (clientPc = "data" /\ clientResult' = "Err") =>
             /\ Len(response_buf') <= Len(response_buf)
             /\ released' <= released
             /\ clientPc' = "returned" ]_vars

\* a body longer than one chunk has been read to its end
C21_Witness ==
    /\ clientPc = "trailers" /\ wire = <<>>
    /\ Len(response_buf) > MaxChunk
    /\ released = Len(response_buf)

(* --------------------------------- C22 --------------------------------- *)
\* C22: the stand-down wait is entered only without a main handle; while no
\* notification is pending the task stays in the loop and is not deleted (a
\* wait that times out is followed by another wait); the loop is left only
\* by consuming a pending notification, after which clientloop returns Ok;
\* a notification ends the loop whether its value is 0 or 1.
C22_WaitEndsOnlyOnNotification ==
    /\ [](clientPc = "wait" => (main_handle = None /\ taskExists))
    /\ [][ (clientPc = "wait" /\ ~clientNotif.pending) =>
             (clientPc' = "wait" /\ taskExists') ]_vars
    /\ [][ (clientPc = "wait" /\ clientPc' # "wait") =>
             /\ clientNotif.pending
             /\ clientNotif' = NoNotif
             /\ clientPc' = "returned" /\ clientResult' = "Ok" ]_vars
    /\ [](\A v \in {0, 1} :
            LoopBreaks(wait_notification([pending |-> TRUE, value |-> v])))

\* the client has left the wait loop on main's notification
C22_Witness ==
    /\ main_handle = None /\ clientPc = "returned" /\ clientResult = "Ok"
    /\ "connection incomming" \in log /\ clientNotif = NoNotif

(* --------------------------------- C23 --------------------------------- *)
\* the positions that may follow a position of send_request when the call
\* goes on ("returned" is the way out by `?`)
NextInCall(pc) ==
    CASE pc = "build" -> { "ready" }
      [] pc = "ready" -> { "send_headers", "returned" }
      [] pc = "send_headers" -> { "send_data", "returned" }
      [] pc = "send_data" -> { "await_response", "returned" }
      [] pc = "await_response" -> { "data", "returned" }
      [] pc = "data" -> { "trailers", "returned" }
      [] pc = "trailers" -> { "decode" }
      [] pc = "decode" -> { "build", "check_handle", "returned" }

\* the order of one send_request and of the two requests: ready, headers
\* without end-of-stream, the whole body with end-of-stream, response
\* headers, all data chunks, trailers; a request is sent only when every
\* earlier one has been read to its trailers
SendRequestOrder ==
    /\ [][ (clientPc \in CallPcs /\ clientPc' # clientPc) =>
             clientPc' \in NextInCall(clientPc) ]_vars
    /\ [](clientPc = "send_data" =>
             /\ ~sent[Len(sent)].has_body
             /\ ~sent[Len(sent)].end_of_stream)
    /\ [](clientPc \in { "await_response", "data", "trailers", "decode" } =>
             /\ sent[Len(sent)].has_body
             /\ sent[Len(sent)].end_of_stream
             /\ sent[Len(sent)].body = body)
    /\ [](clientPc = "trailers" => wire = <<>>)
    /\ [](Len(sent) <= h2_stored + 1)
    /\ []((clientPc \in CallPcs /\ curReq = "Config") => h2_stored >= 1)
    /\ [][ h2_stored' # h2_stored =>
             /\ h2_stored' = h2_stored + 1
             /\ clientPc = "trailers" /\ clientPc' = "decode"
             /\ Len(sent) = h2_stored' ]_vars

\* C23 as stated: each send_request goes through ready, headers, body,
\* response headers, data chunks and trailers in this order with one
\* request in flight at a time, and the stored HTTP/2 handle is replaced
\* only when all of these, the trailers included, succeeded.
C23_HandleReplacedWhenAllSucceeded ==
    /\ SendRequestOrder
    /\ [][ h2_stored' # h2_stored => trailers_result' = "Ok" ]_vars

\* C23 amended: the same order and the same single request in flight; the
\* stored HTTP/2 handle is replaced when ready, headers, body, response
\* headers and every data chunk succeeded and trailers() has returned,
\* whatever it returned: its result is discarded.
C23_HandleReplacedAfterTrailers ==
    /\ SendRequestOrder
    /\ [][ h2_stored' # h2_stored =>
             /\ trailers_result' \in TrailersOutcomes
             /\ clientResult' = clientResult
             /\ clientResult # "Err" ]_vars

\* the Config exchange has been read to the end, its trailers were an
\* error, and the handle has been replaced for the second time
C23_Witness ==
    /\ clientPc = "decode" /\ curReq = "Config" /\ Len(sent) = 2
    /\ h2_stored = 2 /\ trailers_result = "Err"

(* --------------------------------- C24 --------------------------------- *)
\* C24 as stated: whenever main calls notify(hnd, 1) on the handle of the
\* client task, that task still exists.
C24_NotifyWhileClientExists ==
    [][ ( /\ mainPc = "notify" /\ hnd # None /\ ~aborted
          /\ (mainPc' # "notify" \/ aborted') )
        => taskExists ]_vars

(* --------------------------------- C25 --------------------------------- *)
\* C25 as stated: under fair scheduling, once main's notification is
\* pending for the client task, whether it was sent during the bootstrap
\* I/O or during the wait, the client task eventually deletes itself.
C25_NotifiedClientTerminates ==
    clientNotif.pending ~> (clientPc = "deleted")

(* --------------------------------- C26 --------------------------------- *)
\* the names the claim lists
ExpectedNames(cam) ==
    { ResourceName("motor", "m1"), ResourceName("motor", "m2"),
      ResourceName("board", "b"), ResourceName("base", "base") }
    \cup (IF cam THEN { ResourceName("camera", "c") } ELSE {})

\* the variant of ResourceType that goes with a subtype
VariantOf(subtype) ==
    CASE subtype = "motor" -> "Motor"
      [] subtype = "board" -> "Board"
      [] subtype = "base" -> "Base"
      [] subtype = "camera" -> "Camera"

\* C26 as stated: in every build the registry the server is started with
\* holds exactly motor m1, motor m2, board b and base base (namespace rdk,
\* type component), and camera c exactly when the camera feature is on; the
\* names are distinct and each handle's variant is that of its subtype.
C26_RegistryHoldsTheFourResources ==
    srv # None =>
        /\ { e.key : e \in srv[1] } = ExpectedNames(camera)
        /\ \A e, f \in srv[1] : e.key.name = f.key.name => e = f
        /\ \A e \in srv[1] : e.value.variant = VariantOf(e.key.subtype)

====
